---- MODULE Spec2Model ----
(***************************************************************************)
(* AniLibria Torznab bridge (app.py): the /torznab request handler, the    *)
(* upstream client (anilibria_api_get, fetch_search_results,               *)
(* fetch_torrents_for_release, fetch_rss_from_api) and the feed mapper     *)
(* (map_result_to_item, _map_torrent_dict_to_item, iso_to_rfc2822).        *)
(*                                                                         *)
(* Python values are modelled as tagged records.  A missing key and the    *)
(* value None are both the string Missing; an integer id of 0 stands for   *)
(* an absent (or falsy) id.  One request is handled per behaviour: the     *)
(* program keeps no state between requests.                                *)
(***************************************************************************)
EXTENDS Integers, Sequences, FiniteSets, TLC

VARIABLES
    pc,          \* position of the handler: "start", "fetched", "loop", "done"
    req,         \* the query parameters of the request
    data,        \* fetch_search_results' local: what anilibria_api_get returned
    results,     \* the list fetch_search_results returned
    idx,         \* index (1-based) of the next entry of results the loop visits
    items,       \* the <item> elements appended to the channel so far
    items_added, \* torznab's counter of the same name
    calls,       \* log of the upstream GETs issued while handling the request
    seen,        \* per visited entry: how the loop left it (history)
    last,        \* what the torrent list of the last visited entry held (history)
    resp,        \* the HTTP response, NoResp until the handler returns
    now,         \* datetime.utcnow(), in hours since the epoch
    dt_in,       \* the argument of the last iso_to_rfc2822 call made on its own
    dt_out,      \* and what it returned
    m_res,       \* the argument of the last map_result_to_item call made on its own
    m_tout,      \* the outcome of the torrents GET of that call
    m_ret        \* and what the call returned or raised

vars == <<pc, req, data, results, idx, items, items_added, calls, seen, last, resp,
          now, dt_in, dt_out, m_res, m_tout, m_ret>>

-----------------------------------------------------------------------------
(* Bounds of the model *)

\* longest list of entries an upstream search body holds
MaxResults == 2
\* longest list of torrents a release holds (fetched or inline)
MaxTorrents == 2
\* the clock runs over 0 .. MaxClock hours
MaxClock == 2
\* timestamps lie on days 0 .. MaxDay
MaxDay == 1

(* Program constants *)

\* <limits><max> of the capabilities document
CapsMax == 500
\* <limits><default> of the capabilities document
CapsDefault == 100
\* default of the limit query parameter, and of "limit or 50"
DefaultLimit == 50

-----------------------------------------------------------------------------
(* Python values *)

Missing == "<missing>"

\* truthiness of a str-or-None value
Truthy(v) == v # Missing /\ v # ""

\* a or b, on str-or-None values
Or2(a, b) == IF Truthy(a) THEN a ELSE b

RECURSIVE SeqsUpTo(_, _)
SeqsUpTo(S, n) ==
    IF n = 0 THEN {<<>>}
    ELSE LET shorter == SeqsUpTo(S, n - 1)
         IN  shorter \cup {Append(s, x) : s \in {t \in shorter : Len(t) = n - 1}, x \in S}

RECURSIVE SumSeq(_)
SumSeq(s) == IF s = <<>> THEN 0 ELSE Head(s) + SumSeq(Tail(s))

\* str(i) for the ids of the model
IdText(i) == IF i = 1 THEN "1" ELSE IF i = 2 THEN "2" ELSE IF i = 3 THEN "3" ELSE "4"

safe_text(value) == IF value = Missing THEN "" ELSE value

-----------------------------------------------------------------------------
(* Timestamps and iso_to_rfc2822 *)

\* kind: "absent" (None or ""), "nonstring" (a number, a mapping),
\* "garbage" (a string no format parses), "bare" (YYYY-MM-DDTHH:MM:SS),
\* "z" (the same with a Z suffix), "offset" (the same with +HH:00 / -HH:00).
\* day and hour are the fields as written; off is the written UTC offset in hours.
NoTs == [kind |-> "absent", day |-> 0, hour |-> 0, off |-> 0]

Offsets == {-3, 1}

Timestamps ==
    {NoTs}
    \cup [kind : {"nonstring", "garbage"}, day : {0}, hour : {0}, off : {0}]
    \cup [kind : {"bare", "z"}, day : 0..MaxDay, hour : 0..23, off : {0}]
    \cup [kind : {"offset"}, day : 0..MaxDay, hour : 0..23, off : Offsets]

NoDate == [day |-> -1, hour |-> 0, zone |-> ""]

\* datetime.utcnow().strftime("%a, %d %b %Y %H:%M:%S +0000")
FormatNow(n) == [day |-> n \div 24, hour |-> n % 24, zone |-> "+0000"]

\* datetime.fromisoformat(s.replace("Z", "+00:00")) and the strptime fallback
\* succeed exactly on these kinds; on a non-string the AttributeError of
\* .replace and the TypeError of strptime are both caught.
Parses(ts) == ts.kind \in {"bare", "z", "offset"}

\* dt.strftime prints the fields of dt as parsed and a literal +0000.
iso_to_rfc2822(ts, n) ==
    IF ts.kind = "absent" THEN FormatNow(n)
    ELSE IF Parses(ts) THEN [day |-> ts.day, hour |-> ts.hour, zone |-> "+0000"]
    ELSE FormatNow(n)

\* the instant a timestamp names, in hours since the epoch, UTC
UtcHours(ts) == ts.day * 24 + ts.hour - ts.off

\* the instant a rendered date names when read as UTC
DateHours(d) == d.day * 24 + d.hour

-----------------------------------------------------------------------------
(* Upstream JSON: mappings, lists and scalars *)

\* the value of a name/title key: absent, a string, or a mapping given as
\* its (key, value) pairs in iteration order
NoName == [kind |-> "absent", s |-> "", kv |-> <<>>]
StrName(s) == [kind |-> "str", s |-> s, kv |-> <<>>]
DictName(kv) == [kind |-> "dict", s |-> "", kv |-> kv]

\* bool(name): None, "" and {} are falsy
NameTruthy(n) ==
    \/ n.kind = "str" /\ n.s # ""
    \/ n.kind = "dict" /\ n.kv # <<>>

\* d.get(k) on a mapping given as pairs
DictGet(kv, k) ==
    IF \E i \in 1..Len(kv) : kv[i].k = k
    THEN kv[CHOOSE i \in 1..Len(kv) : kv[i].k = k /\ \A j \in 1..(i - 1) : kv[j].k # k].v
    ELSE Missing

\* A JSON mapping with the keys the program reads.  tag is "dict" for a
\* mapping; "list", "str", "num", "null" mark an entry that is no mapping
\* (elems holds a nested list's elements).  name stands for
\* res.get("name") or res.get("title").  tkind says whether the key
\* "torrents" is absent, a list or a mapping (torrents holds its values).
BaseObj ==
    [tag |-> "dict", elems |-> <<>>, id |-> 0, name |-> NoName,
     hash |-> Missing, url |-> Missing, magnet |-> Missing, link |-> Missing,
     download |-> Missing, site_url |-> Missing, season |-> Missing,
     fresh_at |-> NoTs, created_at |-> NoTs, updated_at |-> NoTs, published |-> NoTs,
     tkind |-> "absent", torrents |-> <<>>]

Scalar(tag) == [BaseObj EXCEPT !.tag = tag]
ListEntry(es) == [BaseObj EXCEPT !.tag = "list", !.elems = es]

IsDict(v) == v.tag = "dict"

TsOffset == [kind |-> "offset", day |-> 1, hour |-> 1, off |-> 1]
TsZ == [kind |-> "z", day |-> 0, hour |-> 5, off |-> 0]

\* torrent records
tA == [BaseObj EXCEPT !.id = 1, !.hash = "a", !.url = "http://x/a.torrent", !.updated_at = TsZ]
tB == [BaseObj EXCEPT !.id = 1, !.magnet = "magnet:?xt=b"]
tC == [BaseObj EXCEPT !.id = 2, !.hash = "a", !.download = "http://x/c.torrent"]
tD == [BaseObj EXCEPT !.id = 3]
tS == Scalar("str")

TorrentSamples == {tA, tB, tC, tD, tS}

TorrentLists == SeqsUpTo(TorrentSamples, MaxTorrents)

\* release records
rFetch ==
    [BaseObj EXCEPT !.id = 1, !.fresh_at = TsOffset,
                    !.name = DictName(<<[k |-> "main", v |-> "M"], [k |-> "english", v |-> "E"]>>)]
rInline ==
    [BaseObj EXCEPT !.name = StrName("T"), !.tkind = "list", !.torrents = <<tD, tA>>]
rBoth ==
    [BaseObj EXCEPT !.id = 2, !.name = DictName(<<[k |-> "main", v |-> "M"]>>),
                    !.url = "http://site/2", !.season = "2", !.updated_at = TsZ,
                    !.tkind = "dict", !.torrents = <<tB>>]
rNoName == [BaseObj EXCEPT !.id = 1]

\* torrent records returned directly by the search
dTor == [BaseObj EXCEPT !.id = 4, !.hash = "d", !.url = "http://x/d.torrent"]
dEmpty == [BaseObj EXCEPT !.id = 3, !.url = ""]

EntrySamples == {rFetch, rInline, rBoth, rNoName, dTor, dEmpty, Scalar("str")}

EntryLists == SeqsUpTo(EntrySamples, MaxResults)

\* What anilibria_api_get returns: None, the response text, or the parsed
\* JSON: a list, a scalar, a mapping of wrapper keys (tag "wrap", its pairs
\* in order, each value a list or a scalar) or a single record (tag "dict").
PyNone == [tag |-> "none"]
PyText(s) == [tag |-> "text", s |-> s]
PyNum(n) == [tag |-> "num", n |-> n]
PyList(es) == [tag |-> "list", elems |-> es]
PyWrap(kv) == [tag |-> "wrap", kv |-> kv]

\* not data
Falsy(d) ==
    \/ d.tag = "none"
    \/ d.tag = "text" /\ d.s = ""
    \/ d.tag = "num" /\ d.n = 0
    \/ d.tag = "list" /\ d.elems = <<>>
    \/ d.tag = "wrap" /\ d.kv = <<>>

\* The outcome of one GET: kind "neterr", "timeout", "http5xx" (raise_for_status
\* raises), "json" (val is the parsed body) or "text" (the body is no JSON).
Failures == {"neterr", "timeout", "http5xx"}
Failed(k) == [kind |-> k, val |-> PyNone]
JsonBody(v) == [kind |-> "json", val |-> v]
TextBody(s) == [kind |-> "text", val |-> PyText(s)]

anilibria_api_get(outcome) ==
    IF outcome.kind \in Failures THEN PyNone ELSE outcome.val

-----------------------------------------------------------------------------
(* Upstream client *)

\* key in data and isinstance(data[key], list)
WrapIsList(kv, k) == (\E i \in 1..Len(kv) : kv[i].k = k) /\ DictGet(kv, k).tag = "list"

\* the first list among the values of a mapping, in iteration order
FirstListIndex(kv) ==
    IF \E i \in 1..Len(kv) : kv[i].v.tag = "list"
    THEN CHOOSE i \in 1..Len(kv) : kv[i].v.tag = "list" /\ \A j \in 1..(i - 1) : kv[j].v.tag # "list"
    ELSE 0

\* fetch_search_results wrapping whatever is no list as a single object,
\* the None or text of a failed GET included
fetch_search_results_unguarded(d) ==
    IF d.tag = "list" THEN d.elems ELSE <<BaseObj>>

\* The body of fetch_search_results after the GET: data is what
\* anilibria_api_get returned.  A list is returned as it is.
fetch_search_results(d) ==
    IF Falsy(d) THEN <<>>
    ELSE IF d.tag = "list" THEN d.elems
    ELSE IF d.tag = "wrap" THEN
        IF WrapIsList(d.kv, "data") THEN DictGet(d.kv, "data").elems
        ELSE IF WrapIsList(d.kv, "results") THEN DictGet(d.kv, "results").elems
        ELSE IF WrapIsList(d.kv, "items") THEN DictGet(d.kv, "items").elems
        ELSE IF WrapIsList(d.kv, "titles") THEN DictGet(d.kv, "titles").elems
        ELSE IF FirstListIndex(d.kv) # 0 THEN d.kv[FirstListIndex(d.kv)].v.elems
        ELSE <<BaseObj>>
    ELSE IF d.tag = "dict" THEN
        IF d.tkind = "list" THEN d.torrents ELSE <<d>>
    ELSE <<>>

\* The body of fetch_torrents_for_release after the GET.
fetch_torrents_for_release(d) ==
    IF Falsy(d) THEN <<>>
    ELSE IF d.tag = "list" THEN d.elems
    ELSE IF d.tag = "wrap" THEN
        IF WrapIsList(d.kv, "torrents") THEN DictGet(d.kv, "torrents").elems
        ELSE IF WrapIsList(d.kv, "data") THEN DictGet(d.kv, "data").elems
        ELSE IF WrapIsList(d.kv, "results") THEN DictGet(d.kv, "results").elems
        ELSE IF WrapIsList(d.kv, "items") THEN DictGet(d.kv, "items").elems
        ELSE <<BaseObj>>
    ELSE IF d.tag = "dict" THEN
        IF d.tkind = "list" THEN d.torrents ELSE <<d>>
    ELSE <<>>

\* The body of fetch_rss_from_api after the GET: the text, or None.
fetch_rss_from_api(d) == IF d.tag = "text" THEN d ELSE PyNone

-----------------------------------------------------------------------------
(* Feed mapper *)

NoItem ==
    [title |-> "", link |-> "", guid |-> "", pubDate |-> NoDate, encUrl |-> "",
     via |-> "none", rid |-> 0, tid |-> 0, thash |-> Missing, ridx |-> 0]

TestItem(n) ==
    [NoItem EXCEPT !.title = "Prowlarr Test Entry", !.guid = "test-12345",
                   !.pubDate = FormatNow(n), !.encUrl = "https://example.com/test.torrent",
                   !.via = "test"]

\* any(k in res for k in ("url", "magnet", "link", "download"))
\*   and not res.get("name") and not res.get("title")
TorrentLike(res) ==
    /\ \/ res.url # Missing
       \/ res.magnet # Missing
       \/ res.link # Missing
       \/ res.download # Missing
    /\ ~NameTruthy(res.name)

\* title_field = res.get("name") or res.get("title") or {}: on an empty
\* mapping next(iter(title_field.values())) raises StopIteration.
TitleRaises(res) == ~NameTruthy(res.name)

ReleaseTitle(res) ==
    LET n == res.name
        t == IF n.kind = "dict"
             THEN Or2(DictGet(n.kv, "english"),
                      Or2(DictGet(n.kv, "main"),
                          Or2(DictGet(n.kv, "alternative"), n.kv[1].v)))
             ELSE n.s
    IN  IF safe_text(t) # "" THEN safe_text(t)
        ELSE IF res.id = 0 THEN "release-None" ELSE "release-" \o IdText(res.id)

TsTruthy(ts) == ts.kind # "absent"

\* the same candidates with updated_at ahead of the others
ReleasePubUpdatedFirst(res) ==
    IF TsTruthy(res.updated_at) THEN res.updated_at
    ELSE IF TsTruthy(res.fresh_at) THEN res.fresh_at
    ELSE IF TsTruthy(res.created_at) THEN res.created_at
    ELSE IF TsTruthy(res.published) THEN res.published
    ELSE NoTs

\* the first truthy of fresh_at, created_at, updated_at, published
ReleasePub(res) ==
    IF TsTruthy(res.fresh_at) THEN res.fresh_at
    ELSE IF TsTruthy(res.created_at) THEN res.created_at
    ELSE IF TsTruthy(res.updated_at) THEN res.updated_at
    ELSE IF TsTruthy(res.published) THEN res.published
    ELSE NoTs

ReleaseLink(res) ==
    IF Truthy(res.site_url) THEN res.site_url
    ELSE IF Truthy(res.url) THEN res.url
    ELSE IF res.id # 0 THEN "https://www.anilibria.top/releases/" \o IdText(res.id)
    ELSE ""

\* torrent_obj.get("url") or .get("magnet") or .get("link") or .get("download")
EnclosureUrl(t) == Or2(t.url, Or2(t.magnet, Or2(t.link, t.download)))

\* the same chain with the torrent id ahead of the hash
ReleaseGuidIdFirst(res, t) ==
    IF t.id # 0 THEN IdText(t.id)
    ELSE IF Truthy(t.hash) THEN t.hash
    ELSE IF res.id # 0 THEN IdText(res.id)
    ELSE IF ReleaseLink(res) # "" THEN ReleaseLink(res)
    ELSE ReleaseTitle(res)

\* first_t.get("hash") or first_t.get("id") or release_id or release_link or title
ReleaseGuid(res, t) ==
    IF Truthy(t.hash) THEN t.hash
    ELSE IF t.id # 0 THEN IdText(t.id)
    ELSE IF res.id # 0 THEN IdText(res.id)
    ELSE IF ReleaseLink(res) # "" THEN ReleaseLink(res)
    ELSE ReleaseTitle(res)

\* the first torrent of the list that resolves a URL, where there is one
PickFirstUsable(torrents) ==
    IF \E i \in 1..Len(torrents) : torrents[i].tag = "dict" /\ Truthy(EnclosureUrl(torrents[i]))
    THEN CHOOSE i \in 1..Len(torrents) :
            /\ torrents[i].tag = "dict" /\ Truthy(EnclosureUrl(torrents[i]))
            /\ \A j \in 1..(i - 1) : ~(torrents[j].tag = "dict" /\ Truthy(EnclosureUrl(torrents[j])))
    ELSE 1

\* first_t = torrents[0]: the index (1-based) of the torrent an item is built from
PickTorrent(torrents) == 1

\* The torrents of a release: the fetched list when the release has an id
\* and the list is not empty, else the value of its "torrents" key.
ReleaseTorrents(res, tout) ==
    LET fetched == IF res.id # 0
                   THEN fetch_torrents_for_release(anilibria_api_get(tout))
                   ELSE <<>>
    IN  IF fetched = <<>> /\ res.tkind \in {"list", "dict"} THEN res.torrents ELSE fetched

\* a torrent entry that resolves an enclosure URL
Usable(t) == IsDict(t) /\ Truthy(EnclosureUrl(t))

UsableCount(torrents) == Cardinality({i \in 1..Len(torrents) : Usable(torrents[i])})

\* What the mapper saw of an entry: whether the torrents GET was issued, how
\* many torrents the release held, how many resolve an enclosure URL, and
\* whether the first one does.
Summary(called, torrents) ==
    [called |-> called, n |-> Len(torrents), usable |-> UsableCount(torrents),
     first |-> torrents # <<>> /\ Usable(torrents[1])]

Raise(called, torrents) == [kind |-> "raise", item |-> NoItem, sum |-> Summary(called, torrents)]
ReturnNone(called, torrents) == [kind |-> "none", item |-> NoItem, sum |-> Summary(called, torrents)]
ReturnItem(it, called, torrents) == [kind |-> "item", item |-> it, sum |-> Summary(called, torrents)]

\* link = torrent.get("url") or torrent.get("link") or torrent.get("magnet");
\* the enclosure is set from link whatever it is.
TorrentDictLink(t) == Or2(t.url, Or2(t.link, t.magnet))

_map_torrent_dict_to_item(t, n) ==
    LET link == TorrentDictLink(t)
        title == "torrent"
        guid == IF Truthy(t.hash) THEN t.hash
                ELSE IF t.id # 0 THEN IdText(t.id)
                ELSE IF Truthy(link) THEN link
                ELSE title
        pub == IF TsTruthy(t.published) THEN t.published ELSE t.created_at
    IN  ReturnItem([title |-> title, link |-> safe_text(link), guid |-> guid,
                    pubDate |-> iso_to_rfc2822(pub, n), encUrl |-> safe_text(link),
                    via |-> "torrent", rid |-> 0, tid |-> t.id, thash |-> t.hash,
                    ridx |-> 0],
                   FALSE, <<>>)

\* map_result_to_item(res); tout is the outcome of the torrents GET it
\* issues when the release has an id, n the time of the call.
map_result_to_item(res, tout, n) ==
    IF ~IsDict(res) THEN Raise(FALSE, <<>>)
    ELSE IF TorrentLike(res) THEN _map_torrent_dict_to_item(res, n)
    ELSE IF TitleRaises(res) THEN Raise(FALSE, <<>>)
    ELSE
        LET called == res.id # 0
            torrents == ReleaseTorrents(res, tout)
        IN  IF torrents = <<>> THEN ReturnNone(called, torrents)
            ELSE
                LET first_t == torrents[PickTorrent(torrents)]
                IN  IF ~IsDict(first_t) THEN Raise(called, torrents)
                    ELSE IF ~Truthy(EnclosureUrl(first_t)) THEN ReturnNone(called, torrents)
                    ELSE ReturnItem(
                            [title |-> ReleaseTitle(res), link |-> ReleaseLink(res),
                             guid |-> ReleaseGuid(res, first_t),
                             pubDate |-> iso_to_rfc2822(ReleasePub(res), n),
                             encUrl |-> safe_text(EnclosureUrl(first_t)),
                             via |-> "release", rid |-> res.id, tid |-> first_t.id,
                             thash |-> first_t.hash, ridx |-> 0],
                            called, torrents)

-----------------------------------------------------------------------------
(* Requests, upstream outcomes and responses *)

Modes == {Missing, "caps", "search", "tvsearch", "tv-search", "movie-search", "movie",
          "rss", "bogus"}

SearchModes == {"search", "tvsearch", "movie-search", "movie", "tv-search"}
TvModes == {"tvsearch", "tv-search"}

Limits == {-1, 0, 1, DefaultLimit}

\* The query parameters the handler reads.  season is varied where the
\* handler reads it (the tv modes), extended and an empty q where they
\* decide the route (t=search), limit for one mode of each route.
Requests ==
    {r \in [t : Modes, q : {Missing, "", "x"}, limit : Limits,
            season : {Missing, "1"}, extended : {0, 1}] :
        /\ r.season # Missing => r.t \in TvModes
        /\ r.extended = 1 => r.t = "search" /\ r.q = Missing
        /\ r.t # "search" => r.q = "x"
        /\ r.limit # DefaultLimit => r.t \in {"search", "tvsearch", "rss"}}

RssXml == "<rss><channel><item/></channel></rss>"
Html == "<html>Bad Gateway</html>"

SearchBodies(L) ==
    {PyList(L),
     PyWrap(<<[k |-> "data", v |-> PyList(L)]>>),
     PyWrap(<<[k |-> "meta", v |-> PyNum(1)], [k |-> "releases", v |-> PyList(L)]>>)}
    \cup (IF L = <<>> THEN {} ELSE {PyList(<<ListEntry(L)>>)})

SearchOutcomes ==
    {Failed(k) : k \in Failures}
    \cup {TextBody(""), TextBody(Html), JsonBody(PyNum(0))}
    \cup {JsonBody(PyWrap(<<[k |-> "error", v |-> PyText("x")]>>))}
    \cup {JsonBody(e) : e \in {x \in EntrySamples : IsDict(x)}}
    \cup {JsonBody(b) : b \in UNION {SearchBodies(L) : L \in EntryLists}}

TorrentOutcomes ==
    {Failed(k) : k \in Failures}
    \cup {TextBody(Html), JsonBody(tA)}
    \cup {JsonBody(PyWrap(<<[k |-> "error", v |-> PyText("x")]>>))}
    \cup {JsonBody(PyList(L)) : L \in TorrentLists}
    \cup {JsonBody(PyWrap(<<[k |-> "torrents", v |-> PyList(L)]>>)) : L \in TorrentLists}
    \cup {JsonBody(PyWrap(<<[k |-> "count", v |-> PyNum(1)], [k |-> "items", v |-> PyList(L)]>>)) :
            L \in TorrentLists}

RssOutcomes ==
    {Failed(k) : k \in Failures}
    \cup {TextBody(""), TextBody(Html), TextBody(RssXml)}
    \cup {JsonBody(PyList(<<>>)), JsonBody(PyWrap(<<[k |-> "error", v |-> PyText("x")]>>))}

NoResp == [status |-> 0, kind |-> "none", items |-> <<>>, text |-> "", max |-> 0, default |-> 0]
\* Response(content=ET.tostring(channel), media_type="application/rss+xml")
Feed(its) == [NoResp EXCEPT !.status = 200, !.kind = "feed", !.items = its]
\* Response(content=rss_text, media_type="application/rss+xml")
Proxied(text) == [NoResp EXCEPT !.status = 200, !.kind = "proxy", !.text = text]
CapsDoc == [NoResp EXCEPT !.status = 200, !.kind = "caps", !.max = CapsMax, !.default = CapsDefault]
\* an exception that leaves the handler: the framework answers 500
ServerError == [NoResp EXCEPT !.status = 500, !.kind = "error", !.text = "Internal Server Error"]

\* an upstream GET, as logged: kind "rss", "search" or "torrents"; rid is the
\* release id in the path, ridx the position of the release in results, out
\* the kind of its outcome and text the body when that is no JSON (the
\* outcome of a torrents GET is kept in last only)
Unrecorded == [kind |-> "unrecorded", val |-> PyNone]
Call(kind, rid, ridx, out) ==
    [kind |-> kind, rid |-> rid, ridx |-> ridx, out |-> out.kind,
     text |-> IF out.kind = "text" THEN out.val.s ELSE ""]

-----------------------------------------------------------------------------
(* The /torznab handler *)

\* t == "rss" or (t == "search" and q is None and extended)
IsRss(r) == r.t = "rss" \/ (r.t = "search" /\ r.q = Missing /\ r.extended # 0)

\* t == "search" and not q
IsTest(r) == r.t = "search" /\ ~Truthy(r.q)

IsSearch(r) == r.t \in SearchModes

\* limit or 50
LimitOr50(limit) == IF limit = 0 THEN DefaultLimit ELSE limit

\* no torrents GET was issued
NoCall == [kind |-> "nocall", val |-> PyNone]

\* map_result_to_item was not called
NoRet == [kind |-> "nocall", item |-> NoItem, sum |-> Summary(FALSE, <<>>)]

\* what the loop records of the last visited entry: the length of its
\* torrent list, how many of the torrents resolve a URL, and whether its
\* torrents GET failed
NoLast == [n |-> 0, usable |-> 0, failed |-> FALSE]
Last(sum, out) == [n |-> sum.n, usable |-> sum.usable, failed |-> out.kind \in Failures]

\* len(results[:limit])
SliceLen(n, limit) ==
    IF limit >= 0 THEN (IF limit < n THEN limit ELSE n)
    ELSE (IF n + limit > 0 THEN n + limit ELSE 0)

Init ==
    /\ pc = "start"
    /\ req \in Requests
    /\ data = PyNone
    /\ results = <<>>
    /\ idx = 1
    /\ items = <<>>
    /\ items_added = 0
    /\ calls = <<>>
    /\ seen = <<>>
    /\ last = NoLast
    /\ resp = NoResp
    /\ now = 0
    /\ dt_in = NoTs
    /\ dt_out = NoDate
    /\ m_res = BaseObj
    /\ m_tout = NoCall
    /\ m_ret = NoRet

\* t == "caps"
Caps ==
    /\ pc = "start"
    /\ req.t = "caps"
    /\ resp' = CapsDoc
    /\ pc' = "done"
    /\ UNCHANGED <<req, data, results, idx, items, items_added, calls, seen, last, now, dt_in, dt_out, m_res, m_tout, m_ret>>

\* the RSS branch up to the fallback: fetch_rss_from_api, proxied when it
\* returns a non-empty text
RssFetch ==
    /\ pc = "start"
    /\ req.t # "caps"
    /\ IsRss(req)
    /\ \E out \in RssOutcomes :
        LET rss_text == fetch_rss_from_api(anilibria_api_get(out))
        IN  /\ calls' = Append(calls, Call("rss", 0, 0, out))
            /\ IF ~Falsy(rss_text)
               THEN resp' = Proxied(rss_text.s) /\ pc' = "done"
               ELSE resp' = resp /\ pc' = "latest"
    /\ UNCHANGED <<req, data, results, idx, items, items_added, seen, last, now, dt_in, dt_out, m_res, m_tout, m_ret>>

\* the fallback: fetch_search_results("", limit=limit)
LatestFetch ==
    /\ pc = "latest"
    /\ \E out \in SearchOutcomes :
        /\ data' = anilibria_api_get(out)
        /\ results' = fetch_search_results(anilibria_api_get(out))
        /\ calls' = Append(calls, Call("search", 0, 0, out))
    /\ pc' = "fetched"
    /\ UNCHANGED <<req, idx, items, items_added, seen, last, resp, now, dt_in, dt_out, m_res, m_tout, m_ret>>

\* the validation item of t=search without q
TestEntry ==
    /\ pc = "start"
    /\ req.t # "caps"
    /\ ~IsRss(req)
    /\ IsTest(req)
    /\ resp' = Feed(<<TestItem(now)>>)
    /\ pc' = "done"
    /\ UNCHANGED <<req, data, results, idx, items, items_added, calls, seen, last, now, dt_in, dt_out, m_res, m_tout, m_ret>>

\* the search branch: fetch_search_results(query, limit=limit, category=cat_param)
SearchFetch ==
    /\ pc = "start"
    /\ req.t # "caps"
    /\ ~IsRss(req)
    /\ ~IsTest(req)
    /\ IsSearch(req)
    /\ \E out \in SearchOutcomes :
        /\ data' = anilibria_api_get(out)
        /\ results' = fetch_search_results(anilibria_api_get(out))
        /\ calls' = Append(calls, Call("search", 0, 0, out))
    /\ pc' = "fetched"
    /\ UNCHANGED <<req, idx, items, items_added, seen, last, resp, now, dt_in, dt_out, m_res, m_tout, m_ret>>

\* the default branch answering 400 with a plain-text body
DefaultBadRequest ==
    /\ pc = "start"
    /\ req.t # "caps"
    /\ ~IsRss(req)
    /\ ~IsTest(req)
    /\ ~IsSearch(req)
    /\ resp' = [NoResp EXCEPT !.status = 400, !.kind = "text", !.text = "Bad Request"]
    /\ pc' = "done"
    /\ UNCHANGED <<req, data, results, idx, items, items_added, calls, seen, last, now, dt_in, dt_out, m_res, m_tout, m_ret>>

\* default: return empty rss
Default ==
    /\ pc = "start"
    /\ req.t # "caps"
    /\ ~IsRss(req)
    /\ ~IsTest(req)
    /\ ~IsSearch(req)
    /\ resp' = Feed(<<>>)
    /\ pc' = "done"
    /\ UNCHANGED <<req, data, results, idx, items, items_added, calls, seen, last, now, dt_in, dt_out, m_res, m_tout, m_ret>>

\* the season filter of the tv modes: a release whose season is set and
\* differs from the requested one is skipped (continue)
SeasonSkips(r, res) ==
    /\ r.t \in TvModes
    /\ Truthy(r.season)
    /\ IsDict(res)
    /\ Truthy(res.season)
    /\ res.season # r.season

\* what the loop records of a visited entry: how it left it ("skipped",
\* "raise", "none", "item"), whether the torrents GET was issued and whether
\* the first torrent of the release resolves a URL
Visited(how, sum) == [how |-> how, called |-> sum.called, first |-> sum.first]

\* One iteration of a loop over results on entry res, r being what
\* map_result_to_item returned (or raised); brk tells whether the loop
\* breaks after it.
Visit(res, m, brk) ==
    LET r == m.r
    IN
    /\ seen' = Append(seen, Visited(r.kind, r.sum))
    /\ last' = Last(r.sum, m.out)
    /\ calls' = IF r.sum.called THEN Append(calls, Call("torrents", res.id, idx, Unrecorded)) ELSE calls
    /\ data' = PyNone
    /\ IF r.kind = "raise"
       THEN /\ resp' = ServerError
            /\ pc' = "done"
            /\ UNCHANGED <<idx, items, items_added>>
       ELSE /\ items' = IF r.kind = "item"
                        THEN Append(items, [r.item EXCEPT !.ridx = idx])
                        ELSE items
            /\ items_added' = IF r.kind = "item" THEN items_added + 1 ELSE items_added
            /\ idx' = idx + 1
            /\ pc' = IF brk THEN "finish" ELSE "loop"
            /\ resp' = resp

\* what map_result_to_item(res) can return, over the outcomes of its GET
\* (r) and the outcome of the GET when it issued one
MapOutcomes(res, n) ==
    {LET r == map_result_to_item(res, tout, n)
     IN  [r |-> r, out |-> IF r.sum.called
                             THEN [kind |-> tout.kind,
                                   val |-> IF tout.kind = "text" THEN tout.val ELSE PyNone]
                             ELSE NoCall] :
        tout \in TorrentOutcomes}

\* the same, tabulated for the sample entries
MapTable == [res \in EntrySamples, n \in 0..MaxClock |-> MapOutcomes(res, n)]
MapResult(res, n) ==
    IF res \in EntrySamples /\ n \in 0..MaxClock THEN MapTable[res, n] ELSE MapOutcomes(res, n)

\* a loop that never breaks
LimitNeverReached(r, added) == FALSE

\* items_added >= (limit or 50), after this iteration
LimitReached(r, added) == added >= LimitOr50(r.limit)

\* one iteration of "for res in results" of the search branch
SearchStep ==
    /\ pc \in {"fetched", "loop"}
    /\ ~IsRss(req)
    /\ idx <= Len(results)
    /\ LET res == results[idx]
       IN  IF SeasonSkips(req, res)
           THEN /\ seen' = Append(seen, Visited("skipped", Summary(FALSE, <<>>)))
                /\ last' = NoLast
                /\ idx' = idx + 1
                /\ pc' = "loop"
                /\ data' = PyNone
                /\ UNCHANGED <<items, items_added, calls, resp>>
           ELSE \E m \in MapResult(res, now) :
                    LET added == IF m.r.kind = "item" THEN items_added + 1 ELSE items_added
                    IN  Visit(res, m, LimitReached(req, added))
    /\ UNCHANGED <<req, results, now, dt_in, dt_out, m_res, m_tout, m_ret>>

\* one iteration of "for res in results[:limit]" of the RSS fallback
LatestStep ==
    /\ pc \in {"fetched", "loop"}
    /\ IsRss(req)
    /\ idx <= SliceLen(Len(results), req.limit)
    /\ \E m \in MapResult(results[idx], now) : Visit(results[idx], m, FALSE)
    /\ UNCHANGED <<req, results, now, dt_in, dt_out, m_res, m_tout, m_ret>>

\* the number of entries the loop of the request visits at most
LoopEnd(r, n) == IF IsRss(r) THEN SliceLen(n, r.limit) ELSE n

\* after the loop: the channel is serialized and returned
Finish ==
    /\ \/ pc = "finish"
       \/ pc \in {"fetched", "loop"} /\ idx > LoopEnd(req, Len(results))
    /\ resp' = Feed(items)
    /\ pc' = "done"
    /\ data' = PyNone
    /\ UNCHANGED <<req, results, idx, items, items_added, calls, seen, last, now, dt_in, dt_out, m_res, m_tout, m_ret>>

Next ==
    \/ Caps
    \/ RssFetch
    \/ LatestFetch
    \/ TestEntry
    \/ SearchFetch
    \/ SearchStep
    \/ LatestStep
    \/ Finish
    \/ Default

Spec == Init /\ [][Next]_vars

-----------------------------------------------------------------------------
(* iso_to_rfc2822 on its own *)

InitDate ==
    /\ pc = "date"
    /\ req \in {r \in Requests : r.t = "caps" /\ r.limit = DefaultLimit}
    /\ data = PyNone
    /\ results = <<>>
    /\ idx = 1
    /\ items = <<>>
    /\ items_added = 0
    /\ calls = <<>>
    /\ seen = <<>>
    /\ last = NoLast
    /\ resp = NoResp
    /\ now \in 0..MaxClock
    /\ dt_in = NoTs
    /\ dt_out = NoDate
    /\ m_res = BaseObj
    /\ m_tout = NoCall
    /\ m_ret = NoRet

\* a call iso_to_rfc2822(ts) at time now
Convert ==
    /\ pc = "date"
    /\ \E ts \in Timestamps :
        /\ dt_in' = ts
        /\ dt_out' = iso_to_rfc2822(ts, now)
    /\ UNCHANGED <<pc, req, data, results, idx, items, items_added, calls, seen, last, resp, now,
                   m_res, m_tout, m_ret>>

NextDate == Convert

SpecDate == InitDate /\ [][NextDate]_vars

-----------------------------------------------------------------------------
(* map_result_to_item on its own *)

\* values of the name/title key of a release
MapNames ==
    {NoName, StrName(""), StrName("T"), DictName(<<>>),
     DictName(<<[k |-> "main", v |-> "M"], [k |-> "english", v |-> "E"]>>),
     DictName(<<[k |-> "franchise", v |-> "F"], [k |-> "main", v |-> "M"]>>),
     DictName(<<[k |-> "franchise", v |-> "F"], [k |-> "alternative", v |-> "A"]>>),
     DictName(<<[k |-> "main", v |-> ""]>>)}

\* values of the timestamp keys of a release
MapDates ==
    {[fresh_at |-> NoTs, created_at |-> NoTs, updated_at |-> NoTs, published |-> NoTs],
     [fresh_at |-> TsOffset, created_at |-> NoTs, updated_at |-> TsZ, published |-> NoTs],
     [fresh_at |-> NoTs, created_at |-> [TsZ EXCEPT !.kind = "garbage"], updated_at |-> TsZ,
      published |-> NoTs],
     [fresh_at |-> NoTs, created_at |-> NoTs, updated_at |-> NoTs, published |-> TsOffset]}

\* release records, with and without an id, which carry a torrent list
\* (used when there is no id or the fetched list is empty)
MapInputs ==
    {[BaseObj EXCEPT !.id = i, !.name = nm,
                     !.fresh_at = d.fresh_at, !.created_at = d.created_at,
                     !.updated_at = d.updated_at, !.published = d.published,
                     !.tkind = "list", !.torrents = <<tA, tD>>] :
        i \in {0, 1}, nm \in MapNames, d \in MapDates}
    \cup EntrySamples

InitMap ==
    /\ pc = "map"
    /\ req \in {r \in Requests : r.t = "caps" /\ r.limit = DefaultLimit}
    /\ data = PyNone
    /\ results = <<>>
    /\ idx = 1
    /\ items = <<>>
    /\ items_added = 0
    /\ calls = <<>>
    /\ seen = <<>>
    /\ last = NoLast
    /\ resp = NoResp
    /\ now \in 0..MaxClock
    /\ dt_in = NoTs
    /\ dt_out = NoDate
    /\ m_res = BaseObj
    /\ m_tout = NoCall
    /\ m_ret = NoRet

\* a call map_result_to_item(res) at time now, tout being the outcome of
\* the torrents GET it issues when res has an id
MapCall ==
    /\ pc = "map"
    /\ \E res \in MapInputs, tout \in TorrentOutcomes :
        /\ m_res' = res
        /\ m_tout' = IF res.id # 0 /\ IsDict(res) /\ ~TorrentLike(res) /\ ~TitleRaises(res)
                     THEN tout ELSE NoCall
        /\ m_ret' = map_result_to_item(res, tout, now)
    /\ pc' = "mapped"
    /\ UNCHANGED <<req, data, results, idx, items, items_added, calls, seen, last, resp, now,
                   dt_in, dt_out>>

NextMap == MapCall

SpecMap == InitMap /\ [][NextMap]_vars

-----------------------------------------------------------------------------
(* Properties *)

Done == pc = "done"

\* a request that fetches from upstream to build items: the search branch
\* (a search-family mode, with a query when t=search) or the RSS branch
ItemProducing(r) == r.t # "caps" /\ (IsRss(r) \/ (IsSearch(r) /\ ~IsTest(r)))

\* the items of the channel, appended so far and returned
AllItems == {items[i] : i \in 1..Len(items)} \cup {resp.items[i] : i \in 1..Len(resp.items)}

\* the items built from entry k of results
ItemsOf(k) == {i \in 1..Len(items) : items[i].ridx = k}

\* C1: every item of the channel carries an enclosure whose url attribute is
\* not empty; an entry or pairing without a url-like value puts no item
\* into the channel.
C1_EnclosureNonEmpty == \A it \in AllItems : it.encUrl # ""

\* C2: a visited entry that is no mapping contributes no item and does not
\* raise out of the handler, and a release whose torrents all lack a
\* url-like value contributes no item; the loop goes on after either.
C2_SkipOnMalformed ==
    \A k \in 1..Len(seen) :
        /\ ~IsDict(results[k]) => seen[k].how = "none" /\ ItemsOf(k) = {}
        /\ (k = Len(seen) /\ IsDict(results[k]) /\ last.n > 0 /\ last.usable = 0
                /\ seen[k].how # "raise")
              => seen[k].how = "none" /\ ItemsOf(k) = {}

\* one level of nesting removed from a list of entries
RECURSIVE Flatten1(_)
Flatten1(es) ==
    IF es = <<>> THEN <<>>
    ELSE (IF Head(es).tag = "list" THEN Head(es).elems ELSE <<Head(es)>>) \o Flatten1(Tail(es))

AllDicts(es) == \A i \in 1..Len(es) : IsDict(es[i])

\* C3: when the upstream body is a list of release mappings, or a list of
\* lists of release mappings, fetch_search_results returns exactly the
\* mappings, flat and in order.
C3_NestingNormalized ==
    (pc = "fetched" /\ data.tag = "list" /\ AllDicts(Flatten1(data.elems)))
        => results = Flatten1(data.elems)

\* every upstream GET of the request failed: a network error, a timeout, a
\* non-2xx status or a body that is no JSON
UpstreamDown ==
    /\ calls # <<>>
    /\ \A i \in 1..Len(calls) :
        calls[i].kind \in {"rss", "search"} /\ calls[i].out \in Failures \cup {"text"}

EmptyFeed(r) == r.status = 200 /\ r.kind = "feed" /\ r.items = <<>>

\* the requests C4 is about: rss, and a search-family mode with a query
C4Request(r) == r.t = "rss" \/ (IsSearch(r) /\ Truthy(r.q))

\* C4 as stated: when every upstream GET of an item-producing request fails
\* (a non-JSON body included), the response is a 200 with an RSS document
\* of the handler's own that holds no item.
C4_AlwaysEmptyFeed ==
    (Done /\ C4Request(req) /\ UpstreamDown) => EmptyFeed(resp)

\* the RSS GET of the request returned a non-empty body that is no JSON
RssText == IsRss(req) /\ calls # <<>> /\ calls[1].out = "text" /\ calls[1].text # ""

\* C4, amended: when every upstream GET of an item-producing request fails,
\* the response is a 200; it is an RSS document without items, except that
\* a non-empty non-JSON body of the RSS GET is returned as it is.
C4_EmptyFeedOrProxy ==
    (Done /\ C4Request(req) /\ UpstreamDown) =>
        /\ resp.status = 200
        /\ IF RssText
           THEN resp.kind = "proxy" /\ resp.text = calls[1].text /\ Len(calls) = 1
           ELSE EmptyFeed(resp)

\* the RSS GET ends in a 5xx, the fallback search times out, and the
\* response is the empty feed
C4_Witness ==
    /\ Done
    /\ req.t = "rss"
    /\ Len(calls) = 2
    /\ calls[1].out = "http5xx"
    /\ calls[2].out = "timeout"
    /\ EmptyFeed(resp)

\* entry k of results was mapped as a release: a mapping that is not taken
\* for a torrent record, on which map_result_to_item returned
MappedRelease(k) ==
    /\ IsDict(results[k])
    /\ ~TorrentLike(results[k])
    /\ seen[k].how \in {"item", "none"}

Recognized == {"caps", "search", "tvsearch", "tv-search", "movie-search", "movie", "rss"}

\* C6 as stated: a t that is no recognized mode is answered with a 400 and
\* a plain-text body, and no other request gets a status outside 2xx.
C6_Unrecognized400 ==
    Done =>
        /\ req.t \notin Recognized \cup {Missing} => resp.status = 400 /\ resp.kind = "text"
        /\ resp.status \notin 200..299 => req.t \notin Recognized \cup {Missing}

\* C6, amended: a t that is no recognized mode (or is omitted) is answered
\* with a 200 and an RSS document without items, no upstream GET is issued
\* for it, and no request at all is answered with a 400.
C6_UnrecognizedEmptyFeed ==
    Done =>
        /\ req.t \notin Recognized => EmptyFeed(resp) /\ calls = <<>>
        /\ resp.status # 400

\* t=bogus is answered with the empty feed
C6_Witness == Done /\ req.t = "bogus" /\ EmptyFeed(resp) /\ calls = <<>>

\* the requested limit as a bound on a count
LimitBound(limit) == IF limit < 0 THEN 0 ELSE limit

\* C7: the feed of an item-producing request holds at most limit items (a
\* negative limit allowing none) and never more than the maximum the
\* capabilities document advertises.
C7_LimitBound ==
    (Done /\ resp.kind = "feed" /\ ItemProducing(req)) =>
        /\ Len(resp.items) <= LimitBound(req.limit)
        /\ Len(resp.items) <= CapsMax

\* C8: iso_to_rfc2822 returns a date of the fixed form with +0000 that
\* names, in UTC, the instant of the timestamp when it parses and the
\* current time when it is absent or does not parse.
C8_DateInUtc ==
    dt_out # NoDate =>
        /\ dt_out.zone = "+0000"
        /\ IF Parses(dt_in)
           THEN DateHours(dt_out) = UtcHours(dt_in)
           ELSE dt_out = FormatNow(now)

\* the items built from upstream records
UpstreamItems == {it \in AllItems : it.via \in {"release", "torrent"}}

\* C9 as stated: the guid is a function of the torrent id alone, and
\* distinct torrent ids give distinct guids.
C9_GuidByTorrentId ==
    \A a, b \in {it \in UpstreamItems : it.tid # 0} :
        (a.tid = b.tid) <=> (a.guid = b.guid)

\* C9, amended: the guid is the torrent's hash when it has one, whatever its
\* id, and the text of the torrent's id when it has an id and no hash; no
\* prefix is added.
C9_GuidByHashThenId ==
    \A it \in UpstreamItems :
        /\ Truthy(it.thash) => it.guid = it.thash
        /\ (~Truthy(it.thash) /\ it.tid # 0) => it.guid = IdText(it.tid)

\* a feed with two items of torrent id 1, one with a hash and one without,
\* whose guids differ
C9_Witness ==
    /\ Done
    /\ \E a, b \in {it \in UpstreamItems : it.via = "release"} :
        /\ a.tid = 1 /\ a.thash = "a" /\ a.guid = "a"
        /\ b.tid = 1 /\ b.thash = Missing /\ b.guid = "1"

CallsOf(kinds) == {i \in 1..Len(calls) : calls[i].kind \in kinds}

\* the items built from the entries 1..k of results
ItemsUpTo(k) == Cardinality({i \in 1..Len(items) : items[i].ridx <= k})

\* the torrents GETs go through results in order, at most one per entry
TorrentCallsInOrder ==
    \A i, j \in CallsOf({"torrents"}) :
        /\ i < j => calls[i].ridx < calls[j].ridx
        /\ \A h \in CallsOf({"search", "rss"}) : h < i

\* C10 as stated: at most one search-or-RSS GET, then at most one torrents
\* GET per release in result order, and none for a release after the
\* requested limit of items (when it is 1 or more) was reached.
C10_OneSearchThenTorrents ==
    /\ Cardinality(CallsOf({"search", "rss"})) <= 1
    /\ TorrentCallsInOrder
    /\ \A i \in CallsOf({"torrents"}) :
        req.limit >= 1 => ItemsUpTo(calls[i].ridx - 1) < req.limit

\* C10, amended: at most one RSS GET and at most one search GET, the search
\* GET of the RSS branch only after an RSS GET that gave no text; then at
\* most one torrents GET per entry, in result order, each for an entry with
\* an id; in the search branch none after a mapped entry (one the season
\* filter did not skip) at whose end the count of items had reached
\* (limit or 50), in the RSS branch none beyond results[:limit].
C10_EachFetchOnce ==
    /\ Cardinality(CallsOf({"rss"})) <= 1
    /\ Cardinality(CallsOf({"search"})) <= 1
    /\ \A i \in CallsOf({"rss"}) : i = 1 /\ IsRss(req)
    /\ \A i \in CallsOf({"search"}) :
        IF IsRss(req)
        THEN i = 2 /\ calls[1].kind = "rss" /\ (calls[1].out # "text" \/ calls[1].text = "")
        ELSE i = 1
    /\ TorrentCallsInOrder
    /\ \A i \in CallsOf({"torrents"}) :
        /\ calls[i].ridx \in 1..Len(results)
        /\ calls[i].rid = results[calls[i].ridx].id
        /\ calls[i].rid # 0
        /\ IF IsRss(req)
           THEN calls[i].ridx <= SliceLen(Len(results), req.limit)
           ELSE \A k \in 1..(calls[i].ridx - 1) :
                    seen[k].how # "skipped" => ItemsUpTo(k) < LimitOr50(req.limit)

\* limit=1 and two releases with an id: after the item of the first, whose
\* torrents GET is the only one, the loop stops
C10_Witness ==
    /\ Done
    /\ req.limit = 1
    /\ ~IsRss(req)
    /\ Len(results) = 2
    /\ results[2].id # 0 /\ ~TorrentLike(results[2]) /\ NameTruthy(results[2].name)
    /\ Len(calls) = 2
    /\ calls[2].kind = "torrents" /\ calls[2].ridx = 1
    /\ Len(resp.items) = 1

\* the torrents of the release of the call made on its own: its own list
\* when no torrents GET was issued
CallTorrents == IF m_tout = NoCall THEN m_res.torrents ELSE ReleaseTorrents(m_res, m_tout)

\* the call made on its own was on a release whose first torrent resolves
\* an enclosure URL
ReleaseWithTorrent ==
    /\ pc = "mapped"
    /\ IsDict(m_res)
    /\ ~TorrentLike(m_res)
    /\ CallTorrents # <<>>
    /\ Usable(CallTorrents[1])

\* "release-<id>", the text map_result_to_item puts for an empty title
Placeholder(res) == IF res.id = 0 THEN "release-None" ELSE "release-" \o IdText(res.id)

\* the title in the order english, main, first value, placeholder
TitleInOrder(res) ==
    LET n == res.name
        t == IF n.kind = "dict"
             THEN IF Truthy(DictGet(n.kv, "english")) THEN DictGet(n.kv, "english")
                  ELSE IF Truthy(DictGet(n.kv, "main")) THEN DictGet(n.kv, "main")
                  ELSE IF n.kv # <<>> THEN n.kv[1].v
                  ELSE ""
             ELSE n.s
    IN  IF Truthy(t) THEN t ELSE Placeholder(res)

\* C11: map_result_to_item, on a release whose first torrent resolves a
\* URL, returns an item whose title is the english name, else the main
\* one, else the first value of the name mapping, else the placeholder; it
\* does so too when the release has no name or an empty name mapping.
C11_TitleResolved ==
    ReleaseWithTorrent =>
        /\ m_ret.kind = "item"
        /\ m_ret.item.title = TitleInOrder(m_res)

\* the timestamps a release carries
ReleaseDates(res) ==
    {ts \in {res.fresh_at, res.created_at, res.updated_at, res.published} : TsTruthy(ts)}

\* C12 as stated: the pubDate of an item of a release is the rendering of
\* the torrent's own update timestamp when the torrent has one, and of a
\* timestamp of the release only when it has none.
C12_TorrentDateFirst ==
    (ReleaseWithTorrent /\ m_ret.kind = "item") =>
        LET t == CallTorrents[1]
        IN  IF TsTruthy(t.updated_at)
            THEN m_ret.item.pubDate = iso_to_rfc2822(t.updated_at, now)
            ELSE \/ \E ts \in ReleaseDates(m_res) : m_ret.item.pubDate = iso_to_rfc2822(ts, now)
                 \/ ReleaseDates(m_res) = {} /\ m_ret.item.pubDate = FormatNow(now)

\* C12, amended: the pubDate of an item of a release is the rendering of
\* the first of the release's fresh_at, created_at, updated_at and
\* published that is set, and the current time when none is; the
\* timestamps of the torrent play no part.
C12_ReleaseDateOnly ==
    (ReleaseWithTorrent /\ m_ret.kind = "item") =>
        LET c == <<m_res.fresh_at, m_res.created_at, m_res.updated_at, m_res.published>>
            set == {i \in 1..4 : TsTruthy(c[i])}
        IN  IF set = {}
            THEN m_ret.item.pubDate = FormatNow(now)
            ELSE \E i \in set :
                    /\ \A j \in set : i <= j
                    /\ m_ret.item.pubDate = iso_to_rfc2822(c[i], now)

\* a release with fresh_at and a later-listed updated_at, whose first
\* torrent has an update timestamp of its own: the item carries the date
\* of fresh_at
C12_Witness ==
    /\ ReleaseWithTorrent
    /\ m_ret.kind = "item"
    /\ m_res.fresh_at = TsOffset /\ m_res.updated_at = TsZ
    /\ CallTorrents[1].updated_at = TsZ
    /\ m_ret.item.pubDate = [day |-> TsOffset.day, hour |-> TsOffset.hour, zone |-> "+0000"]
    /\ m_ret.item.pubDate # iso_to_rfc2822(CallTorrents[1].updated_at, now)

=============================================================================
